---------------------------- MODULE Spec2Model ----------------------------
(***************************************************************************)
(* Huffman coding engine of src/huffman.py: tree construction, codeword    *)
(* derivation, metrics, encoding and decoding.                             *)
(*                                                                         *)
(* Python strings are sequences of one-character strings.  Weights are     *)
(* integers (the code only compares and adds them); symbols are single     *)
(* characters, the tokens encode_string iterates over.  An alphabet of n   *)
(* distinct symbols is the first n letters of Letters: the engine never    *)
(* inspects a symbol apart from using it as a dictionary key, so a         *)
(* renaming of the symbols does not change its behaviour.                  *)
(***************************************************************************)
EXTENDS Integers, Sequences, FiniteSets

\* ------------------------------------------------------------------ bounds
MaxSyms == 3
MaxWeight == 2
MaxSeqLen == 3
MaxBits == 3

\* ------------------------------------------------------------ input domains
Letters == <<"A", "B", "C", "D", "E", "F", "G", "H">>
Unknown == "X"
Weights == (0 - 1)..MaxWeight
BitChars == {"0", "1"}
InputChars == {"0", "1", "2"}
\* Four-symbol requests beside the bounded ones: the weights 0.5, 0.25,
\* 0.125, 0.125 in units of 1/8, and the uniform distribution [1/n] * n of
\* the application in units of 1/n.
WorkedExample == <<4, 2, 1, 1>>
Uniform(n) == [i \in 1..n |-> 1]
Examples == {WorkedExample, Uniform(Len(WorkedExample))}

SeqsUpTo(S, n) == UNION {[1..k -> S] : k \in 0..n}

Range(s) == {s[i] : i \in DOMAIN s}

\* ------------------------------------------------------------- HuffmanNode
\* Python's None: an absent node reference.
None == [absent |-> TRUE]
\* Python's None in the symbol field of an internal node.
NoSymbol == "None"

\* HuffmanNode.__init__: left and right start absent.
HuffmanNode(symbol, prob) ==
    [symbol |-> symbol, prob |-> prob, left |-> None, right |-> None]

\* ------------------------------------------------------------------ errors
\* No message of huffman.py carries a position; positions are 1-based here.
NoPos == 0
NoError == [type |-> "none", msg |-> "none", value |-> "none", pos |-> NoPos]
ValueError(msg, value) ==
    [type |-> "ValueError", msg |-> msg, value |-> value, pos |-> NoPos]
\* None.left / None.right in decode_string when root is None.
AttributeError ==
    [type |-> "AttributeError", msg |-> "NoneType", value |-> "none", pos |-> NoPos]

\* the messages of huffman.py
LengthMismatch == "Kolichestvo simvolov i veroyatnostey dolzhno sovpadat"
EmptyTree == "Derevo Khaffmana ne mozhet byt pustym"
UnknownSymbol == "Simvol otsutstvuet v alfavite"
InvalidBit == "Nedopustimyy bit v zakodirovannoy stroke"
MalformedTree == "Nekorrektnoe derevo Khaffmana"
IncompleteCode == "Zakodirovannaya stroka nekorrektna ili nepolna"

\* ------------------------------------------------------- build_huffman_tree
\* line 59: the guard of the length check
LengthsDifferOneSided(syms, ps) == Len(syms) > Len(ps)
LengthsDiffer(syms, ps) == Len(syms) # Len(ps)

\* lines 63-65: one leaf per (symbol, weight) pair, in input order
InitialNodes(syms, ps) == [i \in 1..Len(syms) |-> HuffmanNode(syms[i], ps[i])]

\* an unstable sort: an element goes before the elements of equal key
RECURSIVE InsertByProbBeforeEqual(_, _)
InsertByProbBeforeEqual(x, s) ==
    IF s = <<>> THEN <<x>>
    ELSE IF x.prob <= Head(s).prob THEN <<x>> \o s
    ELSE <<Head(s)>> \o InsertByProbBeforeEqual(x, Tail(s))

\* list.sort(key=lambda x: x.prob) is stable: an element goes after every
\* element whose key is not larger.
RECURSIVE InsertByProb(_, _)
InsertByProb(x, s) ==
    IF s = <<>> THEN <<x>>
    ELSE IF x.prob < Head(s).prob THEN <<x>> \o s
    ELSE <<Head(s)>> \o InsertByProb(x, Tail(s))

\* the sort left out: the first two nodes of the list are merged
SortByProbOmitted(s) == s

RECURSIVE SortByProb(_)
SortByProb(s) ==
    IF s = <<>> THEN <<>>
    ELSE InsertByProb(s[Len(s)], SortByProb(SubSeq(s, 1, Len(s) - 1)))

\* the parent given the weight of its left child only
MergeNodesLeftWeight(l, r) ==
    [symbol |-> NoSymbol, prob |-> l.prob, left |-> l, right |-> r]

\* lines 77-79: the parent of two extracted nodes
MergeNodes(l, r) ==
    [symbol |-> NoSymbol, prob |-> l.prob + r.prob, left |-> l, right |-> r]

\* the two nodes popped from the end of the sorted list
MergeIterationFromEnd(ns) ==
    LET sorted == SortByProb(ns)
        l == sorted[Len(sorted)]
        r == sorted[Len(sorted) - 1]
    IN SubSeq(sorted, 1, Len(sorted) - 2) \o <<MergeNodes(l, r)>>

\* line 68 with the bound off by one
LoopContinuesOffByOne(ns) == Len(ns) > 2

\* line 68: the condition of the merge loop
LoopContinues(ns) == Len(ns) > 1

\* lines 70-81: one iteration of the merge loop
MergeIteration(ns) ==
    LET sorted == SortByProb(ns)
        l == sorted[1]
        r == sorted[2]
    IN SubSeq(sorted, 3, Len(sorted)) \o <<MergeNodes(l, r)>>

\* --------------------------------------------------- generate_huffman_codes
EmptyDict == [k \in {} |-> <<>>]

\* codes[key] = value
Put(d, key, value) ==
    [k \in (DOMAIN d) \cup {key} |-> IF k = key THEN value ELSE d[k]]

\* the right child visited with the parent's path
RECURSIVE traverseRightUnmarked(_, _, _)
traverseRightUnmarked(node, current_code, cs) ==
    IF node = None THEN cs
    ELSE IF node.symbol # NoSymbol THEN Put(cs, node.symbol, current_code)
    ELSE traverseRightUnmarked(node.right, current_code,
             traverseRightUnmarked(node.left, current_code \o <<"0">>, cs))

\* lines 103-121: traverse(node, current_code), threading the dictionary
\* `codes` of the enclosing function; the left subtree is visited first.
RECURSIVE traverse(_, _, _)
traverse(node, current_code, cs) ==
    IF node = None THEN cs
    ELSE IF node.symbol # NoSymbol THEN Put(cs, node.symbol, current_code)
    ELSE traverse(node.right, current_code \o <<"1">>,
                  traverse(node.left, current_code \o <<"0">>, cs))

\* the check of line 98 left out
generate_huffman_codes_unchecked(root) ==
    [err |-> NoError, codes |-> traverse(root, <<>>, EmptyDict)]

\* lines 98-124
generate_huffman_codes(root) ==
    IF root = None
    THEN [err |-> ValueError(EmptyTree, "none"), codes |-> EmptyDict]
    ELSE [err |-> NoError, codes |-> traverse(root, <<>>, EmptyDict)]

\* ------------------------------------------------------------------ metrics
RECURSIVE Pow2(_)
Pow2(n) == IF n = 0 THEN 1 ELSE 2 * Pow2(n - 1)

RECURSIVE SumOver(_, _)
SumOver(S, f) ==
    IF S = {} THEN 0
    ELSE LET x == CHOOSE y \in S : TRUE IN f[x] + SumOver(S \ {x}, f)

MaxOver(S) == IF S = {} THEN 0 ELSE CHOOSE m \in S : \A y \in S : y <= m

\* lines 142-148
calculate_average_length(cs, syms, ps) ==
    IF Len(syms) # Len(ps)
    THEN [err |-> ValueError(LengthMismatch, "none"), avg_len |-> 0]
    ELSE [err |-> NoError,
          avg_len |-> SumOver(DOMAIN syms,
                              [i \in DOMAIN syms |-> ps[i] * Len(cs[syms[i]])])]

\* 2 ** len(code) in place of 2 ** (-len(code))
check_kraft_inequality_sign(cs) ==
    LET num == SumOver(DOMAIN cs, [k \in DOMAIN cs |-> Pow2(Len(cs[k]))])
    IN [ok |-> num <= 1, num |-> num, scale |-> 0]

\* lines 194-198.  Every term 2 ** (-len(code)) is a power of two, so the
\* float sum is exact; it is kept as the fraction num / 2^scale, scale being
\* the longest codeword's length.
check_kraft_inequality(cs) ==
    LET scale == MaxOver({Len(cs[k]) : k \in DOMAIN cs})
        num == SumOver(DOMAIN cs, [k \in DOMAIN cs |-> Pow2(scale - Len(cs[k]))])
    IN [ok |-> num <= Pow2(scale), num |-> num, scale |-> scale]

\* ------------------------------------------------------------ encode_string
\* the codeword put in front of the output instead of behind it
RECURSIVE EncodeLoopPrepend(_, _, _, _)
EncodeLoopPrepend(input_str, i, encoded, cs) ==
    IF i > Len(input_str) THEN [err |-> NoError, encoded |-> encoded]
    ELSE IF input_str[i] \in DOMAIN cs
         THEN EncodeLoopPrepend(input_str, i + 1, cs[input_str[i]] \o encoded, cs)
         ELSE [err |-> ValueError(UnknownSymbol, input_str[i]), encoded |-> <<>>]

\* lines 214-220: the loop from position i on, `encoded` built so far
RECURSIVE EncodeLoop(_, _, _, _)
EncodeLoop(input_str, i, encoded, cs) ==
    IF i > Len(input_str) THEN [err |-> NoError, encoded |-> encoded]
    ELSE IF input_str[i] \in DOMAIN cs
         THEN EncodeLoop(input_str, i + 1, encoded \o cs[input_str[i]], cs)
         ELSE [err |-> ValueError(UnknownSymbol, input_str[i]), encoded |-> <<>>]

encode_string(input_str, cs) == EncodeLoop(input_str, 1, <<>>, cs)

\* ------------------------------------------------------------ decode_string
\* line 251: a node with a symbol is a leaf
IsLeaf(node) == node.symbol # NoSymbol

\* the check of lines 257-258 left out
RECURSIVE DecodeLoopNoFinalCheck(_, _, _, _, _)
DecodeLoopNoFinalCheck(bits, i, current_node, decoded, root) ==
    IF i > Len(bits)
    THEN [err |-> NoError, decoded |-> decoded]
    ELSE IF bits[i] \notin BitChars
         THEN [err |-> ValueError(InvalidBit, bits[i]), decoded |-> <<>>]
    ELSE IF current_node = None
         THEN [err |-> AttributeError, decoded |-> <<>>]
    ELSE LET child == IF bits[i] = "0" THEN current_node.left
                                       ELSE current_node.right
         IN IF child = None
            THEN [err |-> ValueError(MalformedTree, "none"), decoded |-> <<>>]
            ELSE IF IsLeaf(child)
            THEN DecodeLoopNoFinalCheck(bits, i + 1, root,
                                        Append(decoded, child.symbol), root)
            ELSE DecodeLoopNoFinalCheck(bits, i + 1, child, decoded, root)

\* lines 240-260: the loop from position i on.  `current_node != root`
\* compares references; inside one tree a proper subtree is never equal,
\* as a value, to the whole tree, so value equality decides the same.
RECURSIVE DecodeLoop(_, _, _, _, _)
DecodeLoop(bits, i, current_node, decoded, root) ==
    IF i > Len(bits)
    THEN IF current_node # root
         THEN [err |-> ValueError(IncompleteCode, "none"), decoded |-> <<>>]
         ELSE [err |-> NoError, decoded |-> decoded]
    ELSE IF bits[i] \notin BitChars
         THEN [err |-> ValueError(InvalidBit, bits[i]), decoded |-> <<>>]
    ELSE IF current_node = None
         THEN [err |-> AttributeError, decoded |-> <<>>]
    ELSE LET child == IF bits[i] = "0" THEN current_node.left
                                       ELSE current_node.right
         IN IF child = None
            THEN [err |-> ValueError(MalformedTree, "none"), decoded |-> <<>>]
            ELSE IF IsLeaf(child)
            THEN DecodeLoop(bits, i + 1, root, Append(decoded, child.symbol), root)
            ELSE DecodeLoop(bits, i + 1, child, decoded, root)

decode_string(encoded_str, root) == DecodeLoop(encoded_str, 1, root, <<>>, root)

\* -------------------------------------------------------------------- state
VARIABLES
    symbols,         \* build_huffman_tree's argument symbols
    probs,           \* build_huffman_tree's argument probs
    nodes,           \* the working list of build_huffman_tree
    tree_root,       \* the value build_huffman_tree returned
    codes,           \* the dictionary generate_huffman_codes returned
    metrics,         \* avg_len and the pair check_kraft_inequality returned
    input_string,    \* encode_string's argument
    encoded_string,  \* encode_string's result / decode_string's argument
    decoded_string,  \* decode_string's result
    pc,              \* the function that ran last / the position in build
    err,             \* the exception the last function raised, or NoError
    created          \* every HuffmanNode constructed, in construction order

engineVars == <<symbols, probs, nodes, tree_root, codes, metrics, input_string,
                encoded_string, decoded_string, pc, err, created>>

NoMetrics == [avg_len |-> 0, kraft_ok |-> FALSE, kraft_num |-> 0, kraft_scale |-> 0]

EngineInit ==
    /\ \/ /\ \E n \in 0..MaxSyms : symbols = SubSeq(Letters, 1, n)
          /\ probs \in SeqsUpTo(Weights, MaxSyms)
       \/ /\ probs \in Examples
          /\ symbols = SubSeq(Letters, 1, Len(probs))
    /\ nodes = <<>>
    /\ created = <<>>
    /\ tree_root = None
    /\ codes = EmptyDict
    /\ metrics = NoMetrics
    /\ input_string = <<>>
    /\ encoded_string = <<>>
    /\ decoded_string = <<>>
    /\ pc = "start"
    /\ err = NoError

\* ------------------------------------------- build_huffman_tree as a whole
RECURSIVE MergeLoop(_)
MergeLoop(ns) == IF LoopContinues(ns) THEN MergeLoop(MergeIteration(ns)) ELSE ns

\* lines 59-83 run to completion, as the application calls it
build_huffman_tree(syms, ps) ==
    IF LengthsDiffer(syms, ps)
    THEN [err |-> ValueError(LengthMismatch, "none"), root |-> None]
    ELSE LET ns == MergeLoop(InitialNodes(syms, ps))
         IN [err |-> NoError, root |-> IF ns # <<>> THEN ns[1] ELSE None]

\* lines 163-169: only the raising of calculate_entropy is represented; the
\* value, a sum of logarithms, is shown on a label and read by nothing.
NegativeProbability == "Veroyatnosti ne mogut byt otritsatelnymi"
calculate_entropy(ps) ==
    IF \E i \in DOMAIN ps : ps[i] < 0
    THEN [err |-> ValueError(NegativeProbability, "none")]
    ELSE [err |-> NoError]

\* ==================================================== HuffmanApp (main.py)
\* The text of an entry field is the list of its comma-separated tokens,
\* each stripped; "" is a token of white space only, <<"">> the empty text.
BlankText == <<"">>
SymbolEntries ==
    {BlankText, <<"", "">>, <<"A">>, <<"A", "B">>}
ProbEntries ==
    {BlankText, <<"", "">>, <<"x">>, <<"1", "1">>, <<"2", "-1">>}
Distributions == {"uniform", "P1", "P2"}

\* float(): the tokens that are numbers, and their values
NumberTokens == {"-1", "1", "2"}
FloatOf(tok) == CASE tok = "-1" -> 0 - 1 [] tok = "1" -> 1 [] tok = "2" -> 2

\* [... for s in text.split(',') if s.strip()]
NonBlank(tokens) == SelectSeq(tokens, LAMBDA t : t # "")

\* A list of probabilities is kept as integer numerators over one positive
\* denominator: num[i] / den.  The engine only adds and compares them.
Probs(num, den) == [num |-> num, den |-> den]
SumNum(ps) == SumOver(DOMAIN ps.num, ps.num)
\* line 273: abs(sum - 1.0) > 1e-6
NeedsNormalizing(ps) == SumNum(ps) # ps.den
\* line 275: [p / sum for p in probs]; an empty list divides nothing
DividesByZero(ps) == SumNum(ps) = 0 /\ ps.num # <<>>
Normalized(ps) ==
    IF SumNum(ps) > 0 THEN Probs(ps.num, SumNum(ps))
    ELSE IF SumNum(ps) < 0
    THEN Probs([i \in DOMAIN ps.num |-> 0 - ps.num[i]], 0 - SumNum(ps))
    ELSE ps

\* the dialogs of messagebox.showerror
NoDialog == "none"
InputErrorDialog == "Oshibka vvoda"
UnexpectedDialog == "Oshibka: Neozhidannaya oshibka"
CalcErrorDialog == "Oshibka rascheta"
NoFilesDialog == "Ukazhite vkhodnoy i vykhodnoy fayly"
CalcFirstDialog == "Snachala rasschitayte kody Khaffmana"
OperationErrorDialog == "Oshibka operatsii"

\* line 267 with the check left out
EmptyAlphabetAccepted(syms) == FALSE
\* line 267: len(self.symbols) == 0
EmptyAlphabet(syms) == Len(syms) = 0

\* parse_inputs, lines 253-288: the fields after it and what it returned.
\* f holds self.symbols, self.probs_p1, self.probs_p2.
parse_inputs(f, symbols_str, probs_p1_str, probs_p2_str) ==
    LET Fail(dialog, g) == [ok |-> FALSE, shown |-> dialog, fields |-> g]
        f1 == [f EXCEPT !.symbols = NonBlank(symbols_str)]
        f2 == [f1 EXCEPT !.probs_p1 =
                  Probs([i \in DOMAIN NonBlank(probs_p1_str) |->
                            FloatOf(NonBlank(probs_p1_str)[i])], 1)]
        f3 == [f2 EXCEPT !.probs_p2 =
                  Probs([i \in DOMAIN NonBlank(probs_p2_str) |->
                            FloatOf(NonBlank(probs_p2_str)[i])], 1)]
        f4 == IF NeedsNormalizing(f3.probs_p1)
              THEN [f3 EXCEPT !.probs_p1 = Normalized(f3.probs_p1)] ELSE f3
        f5 == IF NeedsNormalizing(f4.probs_p2)
              THEN [f4 EXCEPT !.probs_p2 = Normalized(f4.probs_p2)] ELSE f4
    IN IF BlankText \in {symbols_str, probs_p1_str, probs_p2_str}
       THEN Fail(InputErrorDialog, f)
       ELSE IF Range(NonBlank(probs_p1_str)) \ NumberTokens # {}
       THEN Fail(InputErrorDialog, f1)
       ELSE IF Range(NonBlank(probs_p2_str)) \ NumberTokens # {}
       THEN Fail(InputErrorDialog, f2)
       ELSE IF Len(f3.symbols) # Len(f3.probs_p1.num)
               \/ Len(f3.symbols) # Len(f3.probs_p2.num)
       THEN Fail(InputErrorDialog, f3)
       ELSE IF EmptyAlphabet(f3.symbols)
       THEN Fail(InputErrorDialog, f3)
       ELSE IF NeedsNormalizing(f3.probs_p1) /\ DividesByZero(f3.probs_p1)
       THEN Fail(UnexpectedDialog, f3)
       ELSE IF NeedsNormalizing(f4.probs_p2) /\ DividesByZero(f4.probs_p2)
       THEN Fail(UnexpectedDialog, f4)
       ELSE [ok |-> TRUE, shown |-> NoDialog, fields |-> f5]

\* str.strip() of a file's content
RECURSIVE StripLeft(_)
StripLeft(s) == IF s # <<>> /\ Head(s) = " " THEN StripLeft(Tail(s)) ELSE s
RECURSIVE StripRight(_)
StripRight(s) ==
    IF s # <<>> /\ s[Len(s)] = " " THEN StripRight(SubSeq(s, 1, Len(s) - 1))
    ELSE s
Strip(s) == StripRight(StripLeft(s))

\* files: the one named in the input field and the one in the output field
MaxFileLen == 1
FileChars == {"A", "B", "0", "1", " "}
NoFile == [exists |-> FALSE, content |-> <<>>]
File(content) == [exists |-> TRUE, content |-> content]
InputFiles == {NoFile} \cup {File(c) : c \in SeqsUpTo(FileChars, MaxFileLen)}

\* read_sequence_from_file, file_operations.py lines 23-30
FileNotFound == "Fayl ne nayden"
SomeError(msg) == [type |-> msg, msg |-> msg, value |-> "none", pos |-> NoPos]
read_sequence_from_file(file) ==
    IF file.exists THEN [err |-> NoError, content |-> Strip(file.content)]
    ELSE [err |-> SomeError(FileNotFound), content |-> <<>>]

\* line 372 with the check left out
NoCodesIgnored(cs) == FALSE
\* line 372: not self.current_codes
NoCodes(cs) == cs = EmptyDict
\* line 408: not self.current_tree_root
NoTree(root) == root = None

VARIABLES
    fields,             \* self.symbols, self.probs_p1, self.probs_p2
    current_tree_root,  \* self.current_tree_root
    current_codes,      \* self.current_codes
    output_file,        \* the file named in the output field
    last,               \* the last handler: its dialog and its file accesses
    installed           \* a calculate_codes call has set tree and table

appVars == <<fields, current_tree_root, current_codes, output_file, last,
             installed>>

vars == <<engineVars, appVars>>

Handled(handler, dialog, read, wrote) ==
    [handler |-> handler, shown |-> dialog, read |-> read, wrote |-> wrote]

\* __init__, lines 46-50.  The values of variant5_data.py (eight symbols and
\* two distributions) are overwritten by parse_inputs before anything reads
\* them.
AppStateInit ==
    /\ fields = [symbols |-> Letters,
                 probs_p1 |-> Probs(Uniform(Len(Letters)), Len(Letters)),
                 probs_p2 |-> Probs(Uniform(Len(Letters)), Len(Letters))]
    /\ current_tree_root = None
    /\ current_codes = EmptyDict
    /\ output_file = NoFile
    /\ last = Handled("__init__", NoDialog, FALSE, FALSE)
    /\ installed = FALSE

Init == EngineInit /\ AppStateInit

\* build_huffman_tree, lines 59-65
BuildStart ==
    /\ pc = "start"
    /\ IF LengthsDiffer(symbols, probs)
       THEN /\ err' = ValueError(LengthMismatch, "none")
            /\ pc' = "built"
            /\ UNCHANGED <<nodes, created>>
       ELSE /\ nodes' = InitialNodes(symbols, probs)
            /\ created' = InitialNodes(symbols, probs)
            /\ pc' = "merge"
            /\ UNCHANGED err
    /\ UNCHANGED <<symbols, probs, tree_root, codes, metrics, input_string,
                   encoded_string, decoded_string>>
    /\ UNCHANGED appVars

\* build_huffman_tree, lines 68-81
MergeStep ==
    /\ pc = "merge"
    /\ LoopContinues(nodes)
    /\ nodes' = MergeIteration(nodes)
    /\ created' = Append(created, nodes'[Len(nodes')])
    /\ UNCHANGED <<symbols, probs, tree_root, codes, metrics, input_string,
                   encoded_string, decoded_string, pc, err>>
    /\ UNCHANGED appVars

\* build_huffman_tree, line 83
BuildReturn ==
    /\ pc = "merge"
    /\ ~LoopContinues(nodes)
    /\ tree_root' = IF nodes # <<>> THEN nodes[1] ELSE None
    /\ pc' = "built"
    /\ UNCHANGED <<symbols, probs, nodes, codes, metrics, input_string,
                   encoded_string, decoded_string, err, created>>
    /\ UNCHANGED appVars

\* generate_huffman_codes on the tree just built
GenerateCodes ==
    /\ pc = "built"
    /\ err = NoError
    /\ LET r == generate_huffman_codes(tree_root)
       IN /\ err' = r.err
          /\ codes' = IF r.err = NoError THEN r.codes ELSE codes
    /\ pc' = "coded"
    /\ UNCHANGED <<symbols, probs, nodes, tree_root, metrics, input_string,
                   encoded_string, decoded_string, created>>
    /\ UNCHANGED appVars

\* calculate_average_length and check_kraft_inequality on the table
CalculateMetrics ==
    /\ pc = "coded"
    /\ err = NoError
    /\ LET a == calculate_average_length(codes, symbols, probs)
           k == check_kraft_inequality(codes)
       IN /\ err' = a.err
          /\ metrics' = IF a.err = NoError
                        THEN [avg_len |-> a.avg_len, kraft_ok |-> k.ok,
                              kraft_num |-> k.num, kraft_scale |-> k.scale]
                        ELSE metrics
    /\ pc' = "measured"
    /\ UNCHANGED <<symbols, probs, nodes, tree_root, codes, input_string,
                   encoded_string, decoded_string, created>>
    /\ UNCHANGED appVars

\* encode_string on a sequence over the alphabet and one foreign symbol
EncodeString ==
    /\ pc = "coded"
    /\ err = NoError
    /\ \E s \in SeqsUpTo(Range(symbols) \cup {Unknown}, MaxSeqLen) :
          LET r == encode_string(s, codes)
          IN /\ input_string' = s
             /\ err' = r.err
             /\ encoded_string' = IF r.err = NoError THEN r.encoded
                                  ELSE encoded_string
    /\ pc' = "encoded"
    /\ UNCHANGED <<symbols, probs, nodes, tree_root, codes, metrics,
                   decoded_string, created>>
    /\ UNCHANGED appVars

\* decode_string on what encode_string returned, with the table's tree
DecodeEncoded ==
    /\ pc = "encoded"
    /\ err = NoError
    /\ LET r == decode_string(encoded_string, tree_root)
       IN /\ err' = r.err
          /\ decoded_string' = IF r.err = NoError THEN r.decoded
                               ELSE decoded_string
    /\ pc' = "roundtrip"
    /\ UNCHANGED <<symbols, probs, nodes, tree_root, codes, metrics,
                   input_string, encoded_string, created>>
    /\ UNCHANGED appVars

\* decode_string on an arbitrary string, with the value build returned
DecodeInput ==
    /\ pc = "built"
    /\ err = NoError
    /\ \E bits \in SeqsUpTo(InputChars, MaxBits) :
          LET r == decode_string(bits, tree_root)
          IN /\ encoded_string' = bits
             /\ err' = r.err
             /\ decoded_string' = IF r.err = NoError THEN r.decoded
                                  ELSE decoded_string
    /\ pc' = "decoded"
    /\ UNCHANGED <<symbols, probs, nodes, tree_root, codes, metrics,
                   input_string, created>>
    /\ UNCHANGED appVars

Next ==
    \/ BuildStart
    \/ MergeStep
    \/ BuildReturn
    \/ GenerateCodes
    \/ CalculateMetrics
    \/ EncodeString
    \/ DecodeEncoded
    \/ DecodeInput

Spec == Init /\ [][Next]_vars

\* calculate_codes, lines 290-345, with the entry fields and the selected
\* distribution as the user left them
CalculateCodes ==
    /\ \E symbols_str \in SymbolEntries, probs_p1_str \in ProbEntries,
          probs_p2_str \in ProbEntries, dist \in Distributions :
          LET r == parse_inputs(fields, symbols_str, probs_p1_str, probs_p2_str)
              f == r.fields
              n == Len(f.symbols)
              ps == IF dist = "uniform" THEN Uniform(n)
                    ELSE IF dist = "P1" THEN f.probs_p1.num
                    ELSE f.probs_p2.num
              b == build_huffman_tree(f.symbols, ps)
              g == generate_huffman_codes(b.root)
              a == calculate_average_length(g.codes, f.symbols, ps)
              e == calculate_entropy(ps)
              Done(dialog) == Handled("calculate_codes", dialog, FALSE, FALSE)
          IN /\ fields' = f
             /\ IF ~r.ok
                THEN /\ last' = Done(r.shown)
                     /\ UNCHANGED <<current_tree_root, current_codes, installed>>
                ELSE IF (dist = "uniform" /\ n = 0) \/ b.err # NoError
                THEN /\ last' = Done(CalcErrorDialog)
                     /\ UNCHANGED <<current_tree_root, current_codes, installed>>
                ELSE IF g.err # NoError
                THEN /\ current_tree_root' = b.root
                     /\ last' = Done(CalcErrorDialog)
                     /\ UNCHANGED <<current_codes, installed>>
                ELSE /\ current_tree_root' = b.root
                     /\ current_codes' = g.codes
                     /\ installed' = TRUE
                     /\ last' = Done(IF a.err # NoError \/ e.err # NoError
                                     THEN CalcErrorDialog ELSE NoDialog)
    /\ UNCHANGED output_file
    /\ UNCHANGED engineVars

\* execute_operation, lines 347-368, with a file name missing
ExecuteWithoutFiles ==
    /\ last' = Handled("execute_operation", NoFilesDialog, FALSE, FALSE)
    /\ UNCHANGED <<fields, current_tree_root, current_codes, output_file,
                   installed>>
    /\ UNCHANGED engineVars

\* execute_operation in mode "encode": encode_operation, lines 370-400, and
\* the except clause of lines 365-368.  write_to_file may fail.
EncodeOperation ==
    /\ \E file \in InputFiles, writable \in BOOLEAN :
          LET Done(dialog, read, wrote) ==
                  Handled("encode_operation", dialog, read, wrote)
              r == read_sequence_from_file(file)
              e == encode_string(r.content, current_codes)
          IN IF NoCodes(current_codes)
             THEN /\ last' = Done(CalcFirstDialog, FALSE, FALSE)
                  /\ UNCHANGED output_file
             ELSE IF r.err # NoError \/ r.content = <<>> \/ e.err # NoError
             THEN /\ last' = Done(OperationErrorDialog, TRUE, FALSE)
                  /\ UNCHANGED output_file
             ELSE IF ~writable
             THEN /\ last' = Done(OperationErrorDialog, TRUE, FALSE)
                  /\ UNCHANGED output_file
             ELSE /\ output_file' = File(e.encoded)
                  /\ last' = Done(NoDialog, TRUE, TRUE)
    /\ UNCHANGED <<fields, current_tree_root, current_codes, installed>>
    /\ UNCHANGED engineVars

\* execute_operation in mode "decode": decode_operation, lines 402-426
DecodeOperation ==
    /\ \E file \in InputFiles, writable \in BOOLEAN :
          LET Done(dialog, read, wrote) ==
                  Handled("decode_operation", dialog, read, wrote)
              r == read_sequence_from_file(file)
              d == decode_string(r.content, current_tree_root)
          IN IF NoTree(current_tree_root)
             THEN /\ last' = Done(CalcFirstDialog, FALSE, FALSE)
                  /\ UNCHANGED output_file
             ELSE IF r.err # NoError \/ r.content = <<>> \/ d.err # NoError
             THEN /\ last' = Done(OperationErrorDialog, TRUE, FALSE)
                  /\ UNCHANGED output_file
             ELSE IF ~writable
             THEN /\ last' = Done(OperationErrorDialog, TRUE, FALSE)
                  /\ UNCHANGED output_file
             ELSE /\ output_file' = File(d.decoded)
                  /\ last' = Done(NoDialog, TRUE, TRUE)
    /\ UNCHANGED <<fields, current_tree_root, current_codes, installed>>
    /\ UNCHANGED engineVars

\* the application starts with no request under way in the engine
AppInit ==
    /\ AppStateInit
    /\ symbols = <<>> /\ probs = <<>>
    /\ nodes = <<>> /\ created = <<>>
    /\ tree_root = None
    /\ codes = EmptyDict
    /\ metrics = NoMetrics
    /\ input_string = <<>> /\ encoded_string = <<>> /\ decoded_string = <<>>
    /\ pc = "idle"
    /\ err = NoError

\* The handlers are button callbacks of one Tk main loop: each call runs to
\* its return before the next one starts.  The message panel (log_message,
\* clear_messages, lines 212-220) is display output and is not part of the
\* state.
AppNext ==
    \/ CalculateCodes
    \/ ExecuteWithoutFiles
    \/ EncodeOperation
    \/ DecodeOperation

AppSpec == AppInit /\ [][AppNext]_vars

\* build_huffman_tree is a sequential loop: each of its steps is taken.
FairSpec ==
    Spec /\ WF_vars(BuildStart) /\ WF_vars(MergeStep) /\ WF_vars(BuildReturn)

\* ============================================================== properties
Distinct(s) == \A i, j \in DOMAIN s : i # j => s[i] # s[j]
NonNegative(ps) == \A i \in DOMAIN ps : ps[i] >= 0
\* the alphabet and weights form a valid request of n >= k distinct symbols
ValidAlphabet(k) ==
    /\ Len(symbols) = Len(probs)
    /\ Len(symbols) >= k
    /\ Distinct(symbols)
IsPrefixOf(a, b) == Len(a) <= Len(b) /\ SubSeq(b, 1, Len(a)) = a
\* the position of the first element of s outside S
FirstOutside(s, S) ==
    CHOOSE i \in DOMAIN s : s[i] \notin S /\ \A j \in 1..(i - 1) : s[j] \in S
HasOutside(s, S) == \E i \in DOMAIN s : s[i] \notin S

\* C1 (as claimed): for every alphabet of one or more distinct symbols with
\* non-negative weights and every sequence s over the alphabet, decoding the
\* encoding of s with the table's own tree succeeds and returns exactly s.
C1_RoundTrip ==
    (pc = "roundtrip" /\ ValidAlphabet(1) /\ NonNegative(probs))
        => (err = NoError /\ decoded_string = input_string)

\* C2: for two or more distinct symbols with non-negative weights, no
\* codeword of the generated table is a prefix of another symbol's codeword.
C2_PrefixFree ==
    (pc = "coded" /\ err = NoError /\ ValidAlphabet(2) /\ NonNegative(probs))
        => \A a, b \in DOMAIN codes :
              a # b => ~IsPrefixOf(codes[a], codes[b])

C2_Witness ==
    /\ pc = "coded" /\ err = NoError
    /\ Len(symbols) = 3
    /\ probs = <<1, 0, 1>>
    /\ \E a, b \in DOMAIN codes : Len(codes[a]) < Len(codes[b])

\* The smallest weighted path length of a full binary tree whose leaves are
\* the alphabet positions in S: a tree over S splits S into the leaves of
\* its two subtrees, and every leaf of S lies one level deeper than in them.
MinOver(S) == CHOOSE m \in S : \A y \in S : m <= y
RECURSIVE MinTreeCost(_)
MinTreeCost(S) ==
    IF Cardinality(S) <= 1 THEN 0
    ELSE SumOver(S, [i \in S |-> probs[i]])
         + MinOver({MinTreeCost(L) + MinTreeCost(S \ L) :
                        L \in (SUBSET S) \ {{}, S}})

\* C3: for two or more distinct symbols with non-negative weights, the
\* weighted total length of the generated table equals the minimum over all
\* full binary trees on the same leaves, i.e. over all prefix-free codes.
C3_Optimal ==
    (pc = "coded" /\ err = NoError /\ ValidAlphabet(2) /\ NonNegative(probs))
        => calculate_average_length(codes, symbols, probs).avg_len
               = MinTreeCost(DOMAIN symbols)

C3_Witness ==
    /\ pc = "coded" /\ err = NoError
    /\ Len(symbols) = 3
    /\ probs = <<2, 1, 1>>
    /\ calculate_average_length(codes, symbols, probs).avg_len = 6

\* C4: for two or more distinct symbols the Kraft sum of the generated
\* table is at most 1 and check_kraft_inequality reports it satisfied.
C4_Kraft ==
    (pc = "measured" /\ err = NoError /\ ValidAlphabet(2))
        => /\ metrics.kraft_ok
           /\ metrics.kraft_num <= Pow2(metrics.kraft_scale)

C4_Witness ==
    /\ pc = "measured" /\ err = NoError
    /\ Len(symbols) = 3
    /\ metrics.kraft_ok
    /\ metrics.kraft_scale = 2
    /\ metrics.kraft_num = 4

\* C5 (as claimed): for every non-empty alphabet of distinct symbols,
\* including one symbol, the generated table has exactly one entry per input
\* symbol and every codeword is a non-empty string over {'0','1'}.
C5_TableShape ==
    (pc = "coded" /\ ValidAlphabet(1))
        => /\ err = NoError
           /\ DOMAIN codes = Range(symbols)
           /\ \A k \in DOMAIN codes :
                 codes[k] # <<>> /\ Range(codes[k]) \subseteq BitChars

\* C6 (as claimed): with equally many symbols and weights, a negative
\* weight makes build_huffman_tree fail with the invalid-input error and
\* return no tree.
C6_NegativeRejected ==
    (pc # "start" /\ Len(symbols) = Len(probs) /\ ~NonNegative(probs))
        => (pc = "built" /\ err.type = "ValueError" /\ tree_root = None)

C8_LengthMismatch ==
    (pc # "start" /\ Len(symbols) # Len(probs))
        => /\ pc = "built"
           /\ err = ValueError(LengthMismatch, "none")
           /\ nodes = <<>>
           /\ tree_root = None

C8_Witness ==
    /\ pc = "built"
    /\ Len(symbols) = 2 /\ Len(probs) = 1
    /\ err.msg = LengthMismatch

\* C9 (as claimed): when the input holds a symbol without an entry in the
\* table, encode_string fails with the unknown-symbol error, returns no
\* partial output, and the error names the first offending symbol and its
\* position in the sequence.
C9_UnknownSymbol ==
    (pc = "encoded" /\ HasOutside(input_string, DOMAIN codes))
        => /\ err.type = "ValueError"
           /\ err.msg = UnknownSymbol
           /\ err.value = input_string[FirstOutside(input_string, DOMAIN codes)]
           /\ err.pos = FirstOutside(input_string, DOMAIN codes)
           /\ encoded_string = <<>>

\* C10 (as claimed): for every tree build_huffman_tree returned and every
\* input holding a character other than '0' and '1', decode_string fails
\* with the invalid-bit error and returns no symbols.
C10_InvalidBit ==
    (pc = "decoded" /\ tree_root # None /\ HasOutside(encoded_string, BitChars))
        => /\ err.type = "ValueError"
           /\ err.msg = InvalidBit
           /\ decoded_string = <<>>

\* the table of a tree, as generate_huffman_codes derives it
TableOf(root) == generate_huffman_codes(root).codes

\* bits is a concatenation of codewords of the table cs
RECURSIVE IsCodewordString(_, _)
IsCodewordString(bits, cs) ==
    \/ bits = <<>>
    \/ \E k \in DOMAIN cs :
          /\ cs[k] # <<>>
          /\ IsPrefixOf(cs[k], bits)
          /\ IsCodewordString(SubSeq(bits, Len(cs[k]) + 1, Len(bits)), cs)

\* C11: for a tree of two or more distinct symbols and a string over
\* {'0','1'}, decode_string returns a symbol sequence exactly when the
\* string is a concatenation of codewords of the tree's table (the returned
\* sequence being the one that encodes to it, the empty one for the empty
\* string); otherwise it fails with the incomplete-code error.
C11_TerminalCondition ==
    (pc = "decoded" /\ ValidAlphabet(2) /\ ~HasOutside(encoded_string, BitChars))
        => IF IsCodewordString(encoded_string, TableOf(tree_root))
           THEN /\ err = NoError
                /\ encode_string(decoded_string, TableOf(tree_root))
                       = [err |-> NoError, encoded |-> encoded_string]
           ELSE /\ err = ValueError(IncompleteCode, "none")
                /\ decoded_string = <<>>

C11_Witness ==
    /\ pc = "decoded"
    /\ Len(symbols) = 3 /\ probs = <<2, 1, 1>>
    /\ encoded_string = <<"1", "0", "1">>
    /\ err.msg = IncompleteCode

\* the position of node n in the order of construction (the nodes of one
\* forest over distinct symbols are distinct values)
CreatedIndex(n) == CHOOSE i \in DOMAIN created : created[i] = n
\* among the nodes of S of smallest weight, the one constructed first
EarliestMin(S) ==
    CHOOSE n \in S :
        \A m \in S \ {n} :
            \/ n.prob < m.prob
            \/ n.prob = m.prob /\ CreatedIndex(n) < CreatedIndex(m)

\* C12: at every merge step the first extracted node (the parent's left
\* child) is, among the nodes of smallest weight in the working list, the
\* one inserted earliest (leaves in alphabet order, then merged nodes in
\* creation order), and the second extracted node (the right child) is
\* picked by the same rule among the remaining nodes.
C12_TieBreak ==
    [][(pc = "merge" /\ Len(nodes) > 1 /\ Distinct(symbols))
          => LET parent == nodes'[Len(nodes')]
                 first == EarliestMin(Range(nodes))
                 second == EarliestMin(Range(nodes) \ {first})
             IN /\ Len(nodes') = Len(nodes) - 1
                /\ parent.left = first
                /\ parent.right = second]_vars

\* two merged nodes of equal weight met in the last merge
C12_Witness ==
    /\ pc = "merge"
    /\ probs = Uniform(4)
    /\ Len(nodes) = 1
    /\ nodes[1].left = MergeNodes(HuffmanNode("A", 1), HuffmanNode("B", 1))
    /\ nodes[1].right = MergeNodes(HuffmanNode("C", 1), HuffmanNode("D", 1))

\* C13: for symbols A,B,C,D with weights 0.5, 0.25, 0.125, 0.125 (4,2,1,1
\* in eighths) the codeword lengths are A:1, B:2, C:3, D:3, the average
\* length is 1.75 (14 eighths), the Kraft sum is exactly 1 and the Kraft
\* check is satisfied.
C13_WorkedExample ==
    (pc = "measured" /\ probs = WorkedExample)
        => /\ err = NoError
           /\ DOMAIN codes = {"A", "B", "C", "D"}
           /\ Len(codes["A"]) = 1 /\ Len(codes["B"]) = 2
           /\ Len(codes["C"]) = 3 /\ Len(codes["D"]) = 3
           /\ metrics.avg_len = 14
           /\ metrics.kraft_num = Pow2(metrics.kraft_scale)
           /\ metrics.kraft_ok

C13_Witness ==
    /\ pc = "measured"
    /\ probs = WorkedExample
    /\ codes = [k \in {"A", "B", "C", "D"} |->
                   CASE k = "A" -> <<"0">>
                     [] k = "B" -> <<"1", "0">>
                     [] k = "C" -> <<"1", "1", "0">>
                     [] k = "D" -> <<"1", "1", "1">>]

\* the codewords of the symbols of s, joined in the order of s
RECURSIVE ConcatCodewords(_, _)
ConcatCodewords(s, cs) ==
    IF s = <<>> THEN <<>> ELSE cs[Head(s)] \o ConcatCodewords(Tail(s), cs)

\* C14: for a sequence whose symbols all have entries in the table,
\* encode_string returns the concatenation of their codewords in input
\* order, so the output length is the sum of the codeword lengths and the
\* empty sequence gives the empty bitstring without error; the table is
\* still the one generated from the tree.
C14_EncodeConcat ==
    (pc = "encoded" /\ ~HasOutside(input_string, DOMAIN codes))
        => /\ err = NoError
           /\ encoded_string = ConcatCodewords(input_string, codes)
           /\ Len(encoded_string)
                  = SumOver(DOMAIN input_string,
                            [i \in DOMAIN input_string |->
                                 Len(codes[input_string[i]])])
           /\ (input_string = <<>> => encoded_string = <<>>)
           /\ codes = TableOf(tree_root)

C14_Witness ==
    /\ pc = "encoded" /\ err = NoError
    /\ probs = <<2, 1, 1>>
    /\ input_string = <<"B", "A", "C">>
    /\ encoded_string = <<"1", "0", "0", "1", "1">>

\* every internal node has two children and their weights' sum; a leaf none
RECURSIVE WellFormed(_)
WellFormed(n) ==
    IF IsLeaf(n) THEN n.left = None /\ n.right = None
    ELSE /\ n.left # None /\ n.right # None
         /\ n.prob = n.left.prob + n.right.prob
         /\ WellFormed(n.left) /\ WellFormed(n.right)

\* the (symbol, weight) pairs on the leaves of a tree, left to right
RECURSIVE LeavesOf(_)
LeavesOf(n) ==
    IF IsLeaf(n) THEN <<<<n.symbol, n.prob>>>>
    ELSE LeavesOf(n.left) \o LeavesOf(n.right)

RECURSIVE InternalCount(_)
InternalCount(n) ==
    IF IsLeaf(n) THEN 0 ELSE 1 + InternalCount(n.left) + InternalCount(n.right)

RECURSIVE ForestLeaves(_)
ForestLeaves(ns) ==
    IF ns = <<>> THEN <<>> ELSE LeavesOf(Head(ns)) \o ForestLeaves(Tail(ns))

InputPairs == {<<symbols[i], probs[i]>> : i \in DOMAIN symbols}

\* C15: throughout the merge loop and in the result the working list is a
\* forest of well-formed nodes whose leaves carry every input pair exactly
\* once; the returned tree has n leaves, n - 1 internal nodes and the sum
\* of all weights at its root, and for n = 1 it is the single leaf.
C15_TreeStructure ==
    (pc # "start" /\ ValidAlphabet(1))
        => /\ \A i \in DOMAIN nodes : WellFormed(nodes[i])
           /\ Len(ForestLeaves(nodes)) = Len(symbols)
           /\ Range(ForestLeaves(nodes)) = InputPairs
           /\ pc # "merge" =>
                 /\ tree_root = nodes[1]
                 /\ Len(LeavesOf(tree_root)) = Len(symbols)
                 /\ InternalCount(tree_root) = Len(symbols) - 1
                 /\ tree_root.prob = SumOver(DOMAIN probs, probs)
                 /\ Len(symbols) = 1
                        => tree_root = HuffmanNode(symbols[1], probs[1])

C15_Witness ==
    /\ pc = "merge"
    /\ Len(symbols) = 3
    /\ Len(nodes) = 2
    /\ \E i \in DOMAIN nodes : InternalCount(nodes[i]) = 1

\* C17: for n >= 1 symbols with as many weights the loop performs exactly
\* n - 1 merges, each taking two nodes no heavier than any node left
\* behind and adding their parent at the end of the list, and it ends with
\* exactly one node, which build_huffman_tree returns.
C17_Termination ==
    /\ [](  (pc # "start" /\ Len(symbols) = Len(probs) /\ Len(symbols) >= 1)
                => /\ Len(created) - Len(symbols) = Len(symbols) - Len(nodes)
                   /\ pc # "merge" => (Len(nodes) = 1 /\ tree_root = nodes[1]))
    /\ [][(pc = "merge" /\ nodes' # nodes)
             => LET parent == nodes'[Len(nodes')]
                    kept == SubSeq(nodes', 1, Len(nodes') - 1)
                IN /\ Len(nodes') = Len(nodes) - 1
                   /\ Range(kept) \cup {parent.left, parent.right} = Range(nodes)
                   /\ \A k \in Range(kept) :
                         parent.left.prob <= k.prob /\ parent.right.prob <= k.prob]_vars
    /\ (pc = "start" /\ Len(symbols) = Len(probs) /\ Len(symbols) >= 1)
           ~> (/\ pc = "built" /\ err = NoError
               /\ Len(created) = 2 * Len(symbols) - 1
               /\ Len(nodes) = 1 /\ tree_root = nodes[1])

C17_Witness ==
    /\ pc = "built" /\ err = NoError
    /\ Len(symbols) = 3
    /\ Len(created) = 5
    /\ Len(nodes) = 1

\* C16: after any sequence of calculate_codes, encode and decode calls the
\* application's table is empty with an absent tree, or it is exactly the
\* table generated from the current tree.
C16_Pairing ==
    IF current_tree_root = None
    THEN current_codes = EmptyDict
    ELSE current_codes = TableOf(current_tree_root)

\* a calculation that installed a two-symbol table and then reported the
\* error of a negative probability
C16_Witness ==
    /\ last.handler = "calculate_codes"
    /\ last.shown = CalcErrorDialog
    /\ current_tree_root # None
    /\ DOMAIN current_codes = {"A", "B"}

=============================================================================
